---- MODULE Spec2Model ----
(***************************************************************************)
(* ZenMLMetadataStore (zenml/core/metadata/metadata_wrapper.py): the       *)
(* lineage queries over an ML-Metadata store of contexts, executions,      *)
(* artifacts and events.                                                   *)
(*                                                                         *)
(* The store is the input of every query: a context, execution or artifact *)
(* id is its position in its table (ML-Metadata ids are integers, names    *)
(* and uris are strings), and a table's order is the order in which the    *)
(* backend returns its rows.  A query is one action: it records the call   *)
(* in op, its outcome in ret, the number of backend calls it issued in     *)
(* queries, and what it computed on the way in visited and targets.        *)
(***************************************************************************)
EXTENDS Integers, Sequences, FiniteSets, TLC

VARIABLES
    contexts,      \* Seq of [type, name]: the Context table
    executions,    \* Seq of [component_id, state]: the Execution table
    associations,  \* associations[e]: the context ids of execution e, in backend order
    artifacts,     \* Seq of [uri]: the Artifact table
    events,        \* Seq of [execution_id, artifact_id, type]: the Event table
    op,            \* the last call: [name, ...arguments]
    ret,           \* its outcome: Return(value), ReturnNone or Raise(exception)
    queries,       \* the number of backend queries the last call issued
    visited,       \* the executions the last trace entered, in order
    targets        \* target_context_ids of the last get_outcomes, after the conditions

store == <<contexts, executions, associations, artifacts, events>>
vars == <<contexts, executions, associations, artifacts, events,
          op, ret, queries, visited, targets>>

----------------------------------------------------------------------------
(* Bounds of the model. *)

MaxContexts == 2
MaxExecutions == 2
MaxArtifacts == 2
MaxEvents == 3

----------------------------------------------------------------------------
(* Values. *)

\* Event.type of an output event ("4 means its output channel").
OutputEventType == 4
\* Any other event type stands for an input or another relation.
EventTypes == {OutputEventType - 1, OutputEventType}

\* store.get_context_by_type_and_name returns None when nothing matches.
None == 0

ContextTypes == {"pipeline", "run"}
ContextNames == {"n1", "n2"}

\* e.properties['state'].string_value: the states the engine records.
StateValues == {"running", "complete", "cached", "failed"}

\* The names bound in the module's globals when a method runs: those of the
\* import statements (lines 27-33) and the class itself.
ModuleGlobals ==
    {"Text", "List", "Dict", "pd", "metadata_store", "metadata_store_pb2",
     "PipelineStatusTypes", "ZenMLMetadataStore"}

\* Evaluating a global name that is no builtin: the object bound to it (here
\* its name), or NameError when nothing binds it.
LoadGlobal(name) ==
    IF name \in ModuleGlobals
    THEN [kind |-> "return", value |-> name]
    ELSE [kind |-> "raise", exc |-> "NameError"]

\* PipelineStatusTypes members returned by get_pipeline_status.
PipelineStatusTypes_Running == "Running"
PipelineStatusTypes_Succeeded == "Succeeded"

\* component_id values: "<package>.<instance name>".
ComponentIds == {"pkg.loader", "pkg.trainer", "lib.trainer"}
InstanceNames == {"loader", "trainer"}

\* full.split('.'): the dot-separated segments of a component id.
Split(full) ==
    CASE full = "pkg.loader" -> <<"pkg", "loader">>
      [] full = "pkg.trainer" -> <<"pkg", "trainer">>
      [] full = "lib.trainer" -> <<"lib", "trainer">>
      [] OTHER -> <<full>>

Uris == {"u1", "u2"}

----------------------------------------------------------------------------
(* Sequences and dicts. *)

SeqsUpTo(S, n) == UNION {[1..k -> S] : k \in 0..n}

Range(s) == {s[i] : i \in DOMAIN s}

NoRepeat(s) == \A i, j \in DOMAIN s : s[i] = s[j] => i = j

\* The indices i of 1..n, in increasing order, for which Test(i) holds.
SelectIdx(n, Test(_)) ==
    LET F[i \in 0..n] ==
            IF i = 0 THEN <<>>
            ELSE F[i - 1] \o (IF Test(i) THEN <<i>> ELSE <<>>)
    IN F[n]

Map(s, F(_)) == [i \in DOMAIN s |-> F(s[i])]

\* DictOf with the first pair of a key kept (a setdefault instead of an overwrite).
DictOf_first(s) ==
    [k \in {s[i][1] : i \in DOMAIN s} |->
        LET i == CHOOSE i \in DOMAIN s :
                    s[i][1] = k /\ \A j \in DOMAIN s : s[j][1] = k => j >= i
        IN s[i][2]]

\* A dict built by inserting the pairs of s in order: a later pair with the
\* same key overwrites the value.
DictOf(s) ==
    [k \in {s[i][1] : i \in DOMAIN s} |->
        LET i == CHOOSE i \in DOMAIN s :
                    s[i][1] = k /\ \A j \in DOMAIN s : s[j][1] = k => j <= i
        IN s[i][2]]

Return(v) == [kind |-> "return", value |-> v]
\* A call that returns None (a "return None", or a body that ends without return).
ReturnNone == [kind |-> "none"]
Raise(e) == [kind |-> "raise", exc |-> e]

----------------------------------------------------------------------------
(* The backend store's queries. *)

\* GetContextByTypeAndName answering with a context of that name of any type.
GetContextByTypeAndName_any_type(type_name, context_name) ==
    IF \E c \in DOMAIN contexts : contexts[c].name = context_name
    THEN CHOOSE c \in DOMAIN contexts : contexts[c].name = context_name
    ELSE None

\* store.get_context_by_type_and_name: the id of the context, or None.
GetContextByTypeAndName(type_name, context_name) ==
    IF \E c \in DOMAIN contexts :
           contexts[c].type = type_name /\ contexts[c].name = context_name
    THEN CHOOSE c \in DOMAIN contexts :
           contexts[c].type = type_name /\ contexts[c].name = context_name
    ELSE None

\* store.get_executions_by_context: the ids of the context's executions.
GetExecutionsByContext(context_id) ==
    SelectIdx(Len(executions),
              LAMBDA e : context_id \in Range(associations[e]))

\* store.get_contexts_by_execution: the ids of the execution's contexts.
GetContextsByExecution(execution_id) == associations[execution_id]

\* store.get_executions: every execution id.
GetExecutions == [e \in 1..Len(executions) |-> e]

\* store.get_contexts: every context id.
GetContexts == [c \in 1..Len(contexts) |-> c]

\* store.get_events_by_execution_ids([execution_id]): its events, in order.
GetEventsByExecutionIds(execution_id) ==
    SelectSeq(events, LAMBDA ev : ev.execution_id = execution_id)

\* store.get_artifacts_by_id: the artifact of each id, in the order asked.
GetArtifactsById(artifact_ids) ==
    [i \in DOMAIN artifact_ids |->
        [id |-> artifact_ids[i], uri |-> artifacts[artifact_ids[i]].uri]]

----------------------------------------------------------------------------
(* Component Status Resolver. *)

\* get_pipeline_context: the pipeline-typed context of that name.
\* get_pipeline_context looking the name up among the runs.
get_pipeline_context_run(pipeline_name) ==
    GetContextByTypeAndName("run", pipeline_name)

get_pipeline_context(pipeline_name) ==
    GetContextByTypeAndName("pipeline", pipeline_name)

\* get_pipeline_executions: c.id of None raises AttributeError.
get_pipeline_executions(pipeline_name) ==
    LET c == get_pipeline_context(pipeline_name)
    IN IF c = None THEN Raise("AttributeError")
       ELSE Return(GetExecutionsByContext(c))

\* get_components_status: {component_id: state} over the pipeline's executions.
get_components_status(pipeline_name) ==
    LET pipeline_executions == get_pipeline_executions(pipeline_name)
    IN IF pipeline_executions.kind = "raise" THEN pipeline_executions
       ELSE Return(DictOf(Map(pipeline_executions.value,
                LAMBDA e : <<executions[e].component_id, executions[e].state>>)))

\* get_pipeline_status: iterates the dict, that is its keys.
get_pipeline_status(pipeline_name) ==
    LET components_status == get_components_status(pipeline_name)
    IN IF components_status.kind = "raise" THEN components_status
       ELSE IF \E status \in DOMAIN components_status.value :
                   status # "complete" \/ status # "cached"
            THEN Return(PipelineStatusTypes_Running)
            ELSE Return(PipelineStatusTypes_Succeeded)

\* The backend calls of get_components_status and get_pipeline_status.
StatusQueries(pipeline_name) ==
    IF get_pipeline_context(pipeline_name) = None THEN 1 ELSE 2

Call_get_components_status ==
    \E pipeline_name \in ContextNames :
        /\ op' = [name |-> "get_components_status", pipeline_name |-> pipeline_name]
        /\ ret' = get_components_status(pipeline_name)
        /\ queries' = StatusQueries(pipeline_name)
        /\ UNCHANGED <<store, visited, targets>>

\* The call, were it to record the status it computed on the executions.
Call_get_pipeline_status_writing ==
    \E pipeline_name \in ContextNames :
        /\ op' = [name |-> "get_pipeline_status", pipeline_name |-> pipeline_name]
        /\ ret' = get_pipeline_status(pipeline_name)
        /\ queries' = StatusQueries(pipeline_name)
        /\ executions' = [e \in DOMAIN executions |->
                            [executions[e] EXCEPT !.state = "running"]]
        /\ UNCHANGED <<contexts, associations, artifacts, events, visited, targets>>

Call_get_pipeline_status ==
    \E pipeline_name \in ContextNames :
        /\ op' = [name |-> "get_pipeline_status", pipeline_name |-> pipeline_name]
        /\ ret' = get_pipeline_status(pipeline_name)
        /\ queries' = StatusQueries(pipeline_name)
        /\ UNCHANGED <<store, visited, targets>>

----------------------------------------------------------------------------
(* Cache-Chain Tracer. *)

\* OutputEvents with events of every type taken for output events.
OutputEvents_any(evs) == evs

\* The events of type 4 ("its output channel") among evs.
OutputEvents(evs) == SelectSeq(evs, LAMBDA ev : ev.type = OutputEventType)

\* OutputArtifactIds without the test on the event's type.
OutputArtifactIds_any(evs) == [k \in DOMAIN evs |-> evs[k].artifact_id]

\* [e.artifact_id for e in events if e.type == 4]
OutputArtifactIds(evs) ==
    LET outs == OutputEvents(evs)
    IN [k \in DOMAIN outs |-> outs[k].artifact_id]

\* TracedArtifact taking the first collected artifact id.
TracedArtifact_first(artifacts_ids) ==
    IF artifacts_ids = <<>> THEN None ELSE artifacts_ids[1]

\* if artifacts_ids: artifact_id = artifacts_ids[-1]  ("lets take the last
\* one"); the local is left unassigned, None here, when the list is empty.
TracedArtifact(artifacts_ids) ==
    IF artifacts_ids = <<>> THEN None ELSE artifacts_ids[Len(artifacts_ids)]

\* find_original_context_and_artifacts_from_exec(execution), entered with n
\* backend queries issued so far.  The result is [ret, visited, queries,
\* artifact_id]; artifact_id is the local the body has set when it ends.
\* The body reads the execution's events (line 435) and collects the ids of
\* its output artifacts (lines 438-444); the test "if cached" (lines 447-448)
\* then evaluates ExecutionStates.cached.name, and the module binds no name
\* ExecutionStates: the test raises for every execution, cached or not,
\* before artifact_id is read, and neither branch (lines 449-464) is entered.
TraceFrom(execution, n) ==
    LET artifacts_ids == OutputArtifactIds(GetEventsByExecutionIds(execution))
    IN [ret |-> LoadGlobal("ExecutionStates"),
        visited |-> <<execution>>,
        queries |-> n + 1,
        artifact_id |-> TracedArtifact(artifacts_ids)]

find_original_context_and_artifacts_from_exec(execution) ==
    TraceFrom(execution, 0)

Call_find_original_context_and_artifacts_from_exec ==
    \E execution \in DOMAIN executions :
        LET r == find_original_context_and_artifacts_from_exec(execution)
        IN /\ op' = [name |-> "find_original_context_and_artifacts_from_exec",
                     execution |-> execution]
           /\ ret' = r.ret
           /\ visited' = r.visited
           /\ queries' = r.queries
           /\ UNCHANGED <<store, targets>>

----------------------------------------------------------------------------
(* Stores. *)

ContextTables(names) ==
    {s \in SeqsUpTo([type : ContextTypes, name : names], MaxContexts) : NoRepeat(s)}

NoCall ==
    /\ op = [name |-> "none"]
    /\ ret = [kind |-> "idle"]
    /\ queries = 0
    /\ visited = <<>>
    /\ targets = <<>>

\* Pipelines and runs with their component executions; no artifact recorded.
InitStatus ==
    /\ contexts \in ContextTables({"n1"})
    /\ executions \in SeqsUpTo([component_id : {"pkg.loader", "pkg.trainer"},
                                state : StateValues], MaxExecutions)
    /\ associations \in [DOMAIN executions -> {<<c>> : c \in DOMAIN contexts}]
    /\ artifacts = <<>>
    /\ events = <<>>
    /\ NoCall

NextStatus ==
    \/ Call_get_components_status
    \/ Call_get_pipeline_status

SpecStatus == InitStatus /\ [][NextStatus]_vars

\* The uri of the i-th artifact: uris are not unique across artifacts.
UriOf(i) == IF i % 2 = 1 THEN "u1" ELSE "u2"

\* Artifact ids are numbered in the order the event table first mentions them,
\* and an execution has at most one event on an artifact.
EventTables(ne, na) ==
    {s \in SeqsUpTo([execution_id : 1..ne, artifact_id : 1..na, type : EventTypes],
                    MaxEvents) :
        /\ \A i, j \in DOMAIN s :
              (s[i].execution_id = s[j].execution_id
                 /\ s[i].artifact_id = s[j].artifact_id) => i = j
        /\ \A i \in DOMAIN s :
              \/ s[i].artifact_id = 1
              \/ \E j \in 1..(i - 1) : s[j].artifact_id = s[i].artifact_id - 1}

\* The event tables of a store of ne executions.
EventTablesOf == [ne \in 0..MaxExecutions |-> EventTables(ne, MaxArtifacts)]

NumArtifacts(s) == Cardinality({s[i].artifact_id : i \in DOMAIN s})

\* Two runs whose executions, cached or not, reference each other's artifacts
\* in every order the backend may hold the events in; every second execution
\* belongs to both runs, its own first.
InitTrace ==
    /\ contexts = <<[type |-> "run", name |-> "n1"], [type |-> "run", name |-> "n2"]>>
    /\ executions \in {s \in SeqsUpTo([component_id : {"pkg.trainer"},
                                       state : {"cached", "complete"}],
                                      MaxExecutions) : s # <<>>}
    /\ associations = [e \in DOMAIN executions |->
                          IF e % 2 = 1 THEN <<1>> ELSE <<2, 1>>]
    /\ events \in EventTablesOf[Len(executions)]
    /\ artifacts = [a \in 1..NumArtifacts(events) |-> [uri |-> UriOf(a)]]
    /\ NoCall

NextTrace ==
    \/ Call_find_original_context_and_artifacts_from_exec

SpecTrace == InitTrace /\ [][NextTrace]_vars

----------------------------------------------------------------------------
(* Lookup of a component's execution in a run, and the trace from it. *)

\* InstanceName with the first segment taken instead of the second.
InstanceName_first(full) == Split(full)[1]

\* instance_name = full.split('.')[1]
InstanceName(full) == Split(full)[2]

\* FirstOfInstance falling back on the run's first execution when none matches.
FirstOfInstance_default(execs, component_id) ==
    LET hits == SelectSeq(execs, LAMBDA e :
                    InstanceName(executions[e].component_id) = component_id)
    IN IF hits # <<>> THEN <<hits[1]>>
       ELSE IF execs # <<>> THEN <<execs[1]>> ELSE <<>>

\* The first execution among execs whose instance name is component_id, as a
\* list of one execution id, or the empty list when the loop finds none.
FirstOfInstance(execs, component_id) ==
    LET hits == SelectSeq(execs, LAMBDA e :
                    InstanceName(executions[e].component_id) = component_id)
    IN IF hits = <<>> THEN <<>> ELSE <<hits[1]>>

\* get_execution_by_component_type: the execution, None, or the exception of
\* None.id when no run context has that name.
get_execution_by_component_type(context, component_id) ==
    LET context_id == GetContextByTypeAndName("run", context)
    IN IF context_id = None THEN Raise("AttributeError")
       ELSE LET e == FirstOfInstance(GetExecutionsByContext(context_id), component_id)
            IN IF e = <<>> THEN ReturnNone ELSE Return(e[1])

\* get_executions_by_context(context): the executions of the run of that name
\* (lines 245-254), or the exception of None.id when no run has the name.
get_executions_by_context(context) ==
    LET context_id == GetContextByTypeAndName("run", context)
    IN IF context_id = None THEN Raise("AttributeError")
       ELSE Return(GetExecutionsByContext(context_id))

\* is_component_cached: False when the run has no execution of that
\* instance; for the first one that has it, the test of its state (lines
\* 423-424) evaluates ExecutionStates.cached.name, a name the module does not
\* bind, and raises.
is_component_cached(context, component_id) ==
    LET context_id == GetContextByTypeAndName("run", context)
    IN IF context_id = None THEN Raise("AttributeError")
       ELSE LET e == FirstOfInstance(GetExecutionsByContext(context_id), component_id)
            IN IF e = <<>> THEN Return(FALSE)
               ELSE LoadGlobal("ExecutionStates")

\* The backend calls of the three lookups above.
LookupQueries(context) ==
    IF GetContextByTypeAndName("run", context) = None THEN 1 ELSE 2

\* find_original_context_and_artifacts_from_context: the lookup, then the trace
\* from what it returned; execution.id of None raises AttributeError.
find_original_context_and_artifacts_from_context(context, component_type) ==
    LET execution == get_execution_by_component_type(context, component_type)
        n == LookupQueries(context)
    IN IF execution.kind = "raise"
       THEN [ret |-> execution, visited |-> <<>>, queries |-> n]
       ELSE IF execution = ReturnNone
       THEN [ret |-> Raise("AttributeError"), visited |-> <<>>, queries |-> n]
       ELSE TraceFrom(execution.value, n)

\* The run names and component types the lookups are called with: "n3" names
\* no context, and "pkg" is the first segment of component ids, not the second.
LookupNames == ContextNames \cup {"n3"}
LookupTypes == {"trainer", "pkg"}

Call_get_executions_by_context ==
    \E context \in LookupNames :
        /\ op' = [name |-> "get_executions_by_context", context |-> context]
        /\ ret' = get_executions_by_context(context)
        /\ queries' = LookupQueries(context)
        /\ UNCHANGED <<store, visited, targets>>

Call_get_execution_by_component_type ==
    \E context \in LookupNames, component_id \in LookupTypes :
        /\ op' = [name |-> "get_execution_by_component_type",
                  context |-> context, component_id |-> component_id]
        /\ ret' = get_execution_by_component_type(context, component_id)
        /\ queries' = LookupQueries(context)
        /\ UNCHANGED <<store, visited, targets>>

Call_is_component_cached ==
    \E context \in LookupNames, component_id \in LookupTypes :
        /\ op' = [name |-> "is_component_cached",
                  context |-> context, component_id |-> component_id]
        /\ ret' = is_component_cached(context, component_id)
        /\ queries' = LookupQueries(context)
        /\ UNCHANGED <<store, visited, targets>>

Call_find_original_context_and_artifacts_from_context ==
    \E context \in LookupNames, component_type \in LookupTypes :
        LET r == find_original_context_and_artifacts_from_context(context,
                                                                  component_type)
        IN /\ op' = [name |-> "find_original_context_and_artifacts_from_context",
                     context |-> context, component_type |-> component_type]
           /\ ret' = r.ret
           /\ visited' = r.visited
           /\ queries' = r.queries
           /\ UNCHANGED <<store, targets>>

\* A pipeline and two of its runs; the pipeline shares its name with a run.
LookupContexts ==
    <<[type |-> "pipeline", name |-> "n1"],
      [type |-> "run", name |-> "n1"],
      [type |-> "run", name |-> "n2"]>>

\* An execution belongs to a run, and to the pipeline before or after it.
LookupAssociations == {<<2>>, <<3>>, <<2, 1>>, <<1, 3>>}

\* The execution a cached execution e reuses the output of: the earliest
\* non-cached execution of the same component published before it.
ReusedBy(execs, e) ==
    {o \in 1..(e - 1) :
        /\ execs[o].component_id = execs[e].component_id
        /\ execs[o].state # "cached"}

\* What the engine records for execs: a non-cached execution outputs a new
\* artifact, a cached one an event on the artifact of the execution it reuses.
PublishedEvents(execs) ==
    LET origin(e) == IF execs[e].state = "cached"
                     THEN CHOOSE o \in ReusedBy(execs, e) :
                              \A o2 \in ReusedBy(execs, e) : o <= o2
                     ELSE e
        artifact(o) == Cardinality({x \in 1..o : execs[x].state # "cached"})
    IN [e \in DOMAIN execs |->
          [execution_id |-> e, artifact_id |-> artifact(origin(e)),
           type |-> OutputEventType]]

\* Runs as the engine publishes them: every cached execution reuses an earlier one.
InitLookup ==
    /\ contexts = LookupContexts
    /\ executions \in SeqsUpTo([component_id : ComponentIds,
                                state : {"cached", "complete"}], MaxExecutions)
    /\ \A e \in DOMAIN executions :
          executions[e].state = "cached" => ReusedBy(executions, e) # {}
    /\ associations \in [DOMAIN executions -> LookupAssociations]
    /\ events = PublishedEvents(executions)
    /\ artifacts = [a \in 1..NumArtifacts(events) |-> [uri |-> UriOf(a)]]
    /\ NoCall

NextLookup ==
    \/ Call_get_execution_by_component_type
    \/ Call_is_component_cached
    \/ Call_find_original_context_and_artifacts_from_context

SpecLookup == InitLookup /\ [][NextLookup]_vars

----------------------------------------------------------------------------
(* Outcome Query Engine. *)

\* A Python value that is a str, and one that is an int: a context name is a
\* str, a context id an int, and the two never compare equal.
StrValue(v) == <<"str", v>>
IntValue(v) == <<"int", v>>

\* list_registered_components: the component ids of all executions.
list_registered_components ==
    {executions[GetExecutions[i]].component_id : i \in DOMAIN GetExecutions}

\* e.properties[property_name].string_value; an unset property reads as ''.
PropertyValue(e, property_name) ==
    CASE property_name = "component_id" -> executions[e].component_id
      [] property_name = "state" -> executions[e].state
      [] OTHER -> ""

\* filter_executions_by_component without its assertion.
filter_executions_by_component_unchecked(component) ==
    Return(SelectSeq(GetExecutions,
                     LAMBDA e : executions[e].component_id = component))

\* filter_executions_by_component: asserts the component is registered.
filter_executions_by_component(component) ==
    IF component \notin list_registered_components
    THEN Raise("AssertionError")
    ELSE Return(SelectSeq(GetExecutions,
                          LAMBDA e : executions[e].component_id = component))

\* filter_executions_by_condition: the component's executions with that value.
filter_executions_by_condition(condition) ==
    LET execs == filter_executions_by_component(condition.component)
    IN IF execs.kind = "raise" THEN execs
       ELSE Return(SelectSeq(execs.value,
                LAMBDA e : PropertyValue(e, condition.property_name) = condition.value))

\* map_execution_to_context: get_contexts_by_execution(e.id)[0] of each execution.
map_execution_to_context(execs) ==
    IF \E i \in DOMAIN execs : GetContextsByExecution(execs[i]) = <<>>
    THEN Raise("IndexError")
    ELSE Return([i \in DOMAIN execs |-> GetContextsByExecution(execs[i])[1]])

\* list_contexts_by_condition: the contexts of the condition's executions.
list_contexts_by_condition(condition) ==
    LET execs == filter_executions_by_condition(condition)
    IN IF execs.kind = "raise" THEN execs
       ELSE map_execution_to_context(execs.value)

\* The backend calls of list_contexts_by_condition: get_executions for the
\* assertion, get_executions again, then get_contexts_by_execution for one
\* execution after another, up to the first that has no context ([0] raises).
ConditionQueries(condition) ==
    LET execs == filter_executions_by_condition(condition)
    IN IF execs.kind = "raise" THEN 1
       ELSE LET orphans == {i \in DOMAIN execs.value :
                               GetContextsByExecution(execs.value[i]) = <<>>}
            IN IF orphans = {} THEN 2 + Len(execs.value)
               ELSE 2 + (CHOOSE i \in orphans : \A j \in orphans : i <= j)

\* extract_uris: every artifact replaced by its uri.
extract_uris(result) ==
    [k \in DOMAIN result |-> [i \in DOMAIN result[k] |-> result[k][i].uri]]

\* get_outcomes_in_context(context, output_components): context is the name of
\* a run, passed to get_context_by_type_and_name as context_name; an int there
\* is refused before any lookup (context_name is a string field).
get_outcomes_in_context(context, output_components) ==
    LET output_ids == IF output_components # <<>>
                      THEN Range(output_components)
                      ELSE list_registered_components
    IN IF context[1] # "str" THEN Raise("TypeError")
       ELSE
       LET context_id == GetContextByTypeAndName("run", context[2])
       IN IF context_id = None THEN Raise("AttributeError")
          ELSE
          LET execs_in_context == GetExecutionsByContext(context_id)
              selected == SelectSeq(execs_in_context,
                              LAMBDA e : executions[e].component_id \in output_ids)
              execs_components ==
                  DictOf([i \in DOMAIN selected |->
                            <<executions[selected[i]].component_id, selected[i]>>])
          IN Return([component \in DOMAIN execs_components |->
                        GetArtifactsById(OutputArtifactIds(
                            GetEventsByExecutionIds(execs_components[component])))])

\* The backend calls of get_outcomes_in_context.
InContextQueries(context, output_components) ==
    (IF output_components # <<>> THEN 0 ELSE 1)
      + (IF context[1] # "str" THEN 0
         ELSE IF GetContextByTypeAndName("run", context[2]) = None THEN 1
         ELSE 2 + 2 * Cardinality(DOMAIN
                        get_outcomes_in_context(context, output_components).value))

Call_get_outcomes_in_context ==
    \E context \in {"n1", "n3"},
       output_components \in {<<>>, <<"pkg.trainer">>} :
        /\ op' = [name |-> "get_outcomes_in_context", context |-> context,
                  output_components |-> output_components]
        /\ ret' = get_outcomes_in_context(StrValue(context), output_components)
        /\ queries' = InContextQueries(StrValue(context), output_components)
        /\ UNCHANGED <<store, visited, targets>>

\* The guard with "and" read as "==": it fires only when the two lists are equal.
BothSelectors_equal(cs, context_names) == cs = context_names

\* bool(contexts) and bool(context_names)
BothSelectors(cs, context_names) == cs # <<>> /\ context_names # <<>>

\* target_context_ids before the conditions: [ret, queries].
SelectTargets(cs, context_names) ==
    IF cs # <<>>
    THEN LET ids == [i \in DOMAIN cs |-> GetContextByTypeAndName("run", cs[i])]
             missing == {i \in DOMAIN cs : ids[i] = None}
         IN IF missing = {}
            THEN [ret |-> Return(ids), queries |-> Len(cs)]
            ELSE [ret |-> Raise("AttributeError"),
                  queries |-> CHOOSE i \in missing : \A j \in missing : i <= j]
    ELSE IF context_names # <<>>
    THEN [ret |-> Return(SelectSeq(GetContexts,
                     LAMBDA c : contexts[c].name \in Range(context_names))),
          queries |-> 1]
    ELSE [ret |-> Return(GetContexts), queries |-> 1]

RECURSIVE ApplyConditions(_, _, _, _)
\* The loop over conditions from the i-th on: [ret, queries].
ApplyConditions(conditions, i, target_context_ids, n) ==
    IF i > Len(conditions)
    THEN [ret |-> Return(target_context_ids), queries |-> n]
    ELSE LET context_w_cond == list_contexts_by_condition(conditions[i])
             m == n + ConditionQueries(conditions[i])
         IN IF context_w_cond.kind = "raise"
            THEN [ret |-> context_w_cond, queries |-> m]
            ELSE ApplyConditions(conditions, i + 1,
                    SelectSeq(target_context_ids,
                              LAMBDA c : c \in Range(context_w_cond.value)),
                    m)

\* get_outcomes: [ret, targets, queries, resolving].  targets is
\* target_context_ids once the conditions are applied, and resolving the
\* number of backend calls made up to there (lines 351-372).  The result loop
\* calls get_outcomes_in_context with c_id, a context id, where that method
\* takes a run's name.
get_outcomes(cs, context_names, output_components, conditions) ==
    IF BothSelectors(cs, context_names)
    THEN [ret |-> Raise("Exception"), targets |-> <<>>, queries |-> 0,
          resolving |-> 0]
    ELSE
    LET selected == SelectTargets(cs, context_names)
    IN IF selected.ret.kind = "raise"
       THEN [ret |-> selected.ret, targets |-> <<>>, queries |-> selected.queries,
             resolving |-> selected.queries]
       ELSE
       LET filtered == ApplyConditions(conditions, 1, selected.ret.value,
                                       selected.queries)
       IN IF filtered.ret.kind = "raise"
          THEN [ret |-> filtered.ret, targets |-> <<>>, queries |-> filtered.queries,
                resolving |-> filtered.queries]
          ELSE
          LET target_context_ids == filtered.ret.value
              inner(c_id) == get_outcomes_in_context(IntValue(c_id), output_components)
              failed == {i \in DOMAIN target_context_ids :
                            inner(target_context_ids[i]).kind = "raise"}
          IN IF failed # {}
             THEN LET i == CHOOSE i \in failed : \A j \in failed : i <= j
                  IN [ret |-> inner(target_context_ids[i]),
                      targets |-> target_context_ids,
                      queries |-> filtered.queries
                        + InContextQueries(IntValue(target_context_ids[i]),
                                           output_components),
                      resolving |-> filtered.queries]
             ELSE [ret |-> Return([c_id \in Range(target_context_ids) |->
                                      extract_uris(inner(c_id).value)]),
                   targets |-> target_context_ids,
                   queries |-> filtered.queries,
                   resolving |-> filtered.queries]

\* The arguments get_outcomes is called with.
MaxConditions == 2
Conditions ==
    [component : {"pkg.trainer"}, property_name : {"state"},
     value : {"complete", "cached"}]
SelectorLists == {<<>>, <<"n1">>, <<"n2", "n3">>}

Call_get_outcomes ==
    \E cs \in SelectorLists, context_names \in {<<>>, <<"n1">>},
       output_components \in {<<>>, <<"pkg.trainer">>},
       conditions \in SeqsUpTo(Conditions, MaxConditions) :
        LET r == get_outcomes(cs, context_names, output_components, conditions)
        IN /\ op' = [name |-> "get_outcomes", contexts |-> cs,
                     context_names |-> context_names,
                     output_components |-> output_components,
                     conditions |-> conditions]
           /\ ret' = r.ret
           /\ targets' = r.targets
           /\ queries' = r.queries
           /\ UNCHANGED <<store, visited>>

\* Runs as the engine publishes them, of two trainer components.
InitOutcomes ==
    /\ contexts = LookupContexts
    /\ executions \in SeqsUpTo([component_id : {"pkg.trainer", "lib.trainer"},
                                state : {"cached", "complete"}], MaxExecutions)
    /\ \A e \in DOMAIN executions :
          executions[e].state = "cached" => ReusedBy(executions, e) # {}
    /\ associations \in [DOMAIN executions -> {<<2>>, <<1, 2>>, <<1, 3>>}]
    /\ events = PublishedEvents(executions)
    /\ artifacts = [a \in 1..NumArtifacts(events) |-> [uri |-> UriOf(a)]]
    /\ NoCall

\* One query on each store: a query writes nothing, so a second one would see
\* the store the first one saw.
NextOutcomes ==
    \/ /\ ret.kind = "idle"
       /\ Call_get_outcomes

SpecOutcomes == InitOutcomes /\ [][NextOutcomes]_vars

\* The event tables that list the events of one execution after another.
EventTablesByExecution ==
    [ne \in 0..MaxExecutions |->
        {s \in EventTablesOf[ne] :
            \A i \in 1..(Len(s) - 1) : s[i].execution_id <= s[i + 1].execution_id}]

\* Execution e has an output event on an artifact an earlier event output.
Reuses(evs, e) ==
    \E i \in DOMAIN evs :
        /\ evs[i].execution_id = e
        /\ evs[i].type = OutputEventType
        /\ \E j \in 1..(i - 1) :
              /\ evs[j].artifact_id = evs[i].artifact_id
              /\ evs[j].type = OutputEventType
              /\ evs[j].execution_id # e

\* A pipeline with its runs n1 and n2: loader and trainer executions, each in
\* run n1 or (with the pipeline's context first) in run n2, cached when they
\* reuse an artifact.
InitInContext ==
    /\ contexts = LookupContexts
    /\ \E ne \in 0..MaxExecutions :
         \E comps \in [1..ne -> {"pkg.loader", "pkg.trainer"}] :
            /\ events \in EventTablesByExecution[ne]
            /\ executions =
                  [e \in 1..ne |->
                      [component_id |-> comps[e],
                       state |-> IF Reuses(events, e) THEN "cached" ELSE "complete"]]
    /\ associations \in [DOMAIN executions -> {<<2>>, <<1, 3>>}]
    /\ artifacts = [a \in 1..NumArtifacts(events) |-> [uri |-> UriOf(a)]]
    /\ NoCall

NextInContext ==
    \/ /\ ret.kind = "idle"
       /\ Call_get_outcomes_in_context
    \/ /\ ret.kind = "idle"
       /\ Call_find_original_context_and_artifacts_from_exec

SpecInContext == InitInContext /\ [][NextInContext]_vars

----------------------------------------------------------------------------
(* Every query on one store, with a backend that may fail. *)

\* What a call returns on a backend that answers every query:
\* [ret, queries, visited, targets, resolving]; resolving is the number of
\* queries after which targets is set (get_outcomes, line 372).
Answer(call) ==
    IF call.name = "get_components_status"
    THEN [ret |-> get_components_status(call.pipeline_name),
          queries |-> StatusQueries(call.pipeline_name),
          visited |-> <<>>, targets |-> <<>>,
          resolving |-> StatusQueries(call.pipeline_name)]
    ELSE IF call.name = "get_pipeline_status"
    THEN [ret |-> get_pipeline_status(call.pipeline_name),
          queries |-> StatusQueries(call.pipeline_name),
          visited |-> <<>>, targets |-> <<>>,
          resolving |-> StatusQueries(call.pipeline_name)]
    ELSE IF call.name = "get_outcomes_in_context"
    THEN [ret |-> get_outcomes_in_context(StrValue(call.context),
                                          call.output_components),
          queries |-> InContextQueries(StrValue(call.context),
                                       call.output_components),
          visited |-> <<>>, targets |-> <<>>,
          resolving |-> InContextQueries(StrValue(call.context),
                                         call.output_components)]
    ELSE IF call.name = "get_outcomes"
    THEN LET r == get_outcomes(call.contexts, call.context_names,
                               call.output_components, call.conditions)
         IN [ret |-> r.ret, queries |-> r.queries,
             visited |-> <<>>, targets |-> r.targets,
             resolving |-> r.resolving]
    ELSE LET r == find_original_context_and_artifacts_from_exec(call.execution)
         IN [ret |-> r.ret, queries |-> r.queries,
             visited |-> r.visited, targets |-> <<>>,
             resolving |-> r.queries]

\* OnFailingStore with the failed query caught and issued a second time.
OnFailingStore_retried(r, k) ==
    IF k \in 1..r.queries THEN [r EXCEPT !.queries = r.queries + 1] ELSE r

\* The outcome r of a call when the k-th query it issues raises in the
\* backend client: no method catches an exception, so the call ends there
\* with that error; the trace issues its one query in the frame it entered,
\* and get_outcomes has set target_context_ids when the query that fails is
\* one of its result loop (lines 375-377).
OnFailingStore(r, k) ==
    IF k \in 1..r.queries
    THEN [ret |-> Raise("StoreError"), queries |-> k,
          visited |-> r.visited,
          targets |-> IF k > r.resolving THEN r.targets ELSE <<>>,
          resolving |-> r.resolving]
    ELSE r

\* The calls made on a failing backend, and the query that fails.
MaxFailedQuery == 2
FailingCalls ==
    [name : {"get_components_status", "get_pipeline_status"},
     pipeline_name : ContextNames]
    \cup [name : {"get_outcomes_in_context"}, context : {"n1", "n3"},
          output_components : {<<>>, <<"pkg.trainer">>}]
    \cup [name : {"get_outcomes"}, contexts : SelectorLists,
          context_names : {<<>>}, output_components : {<<>>},
          conditions : SeqsUpTo(Conditions, 1)]
    \cup [name : {"find_original_context_and_artifacts_from_exec"},
          execution : DOMAIN executions]

Call_on_failing_store ==
    \E call \in FailingCalls, k \in 1..MaxFailedQuery :
        \E r \in {OnFailingStore(Answer(call), k)} :
           /\ op' = [name |-> "on_failing_store", call |-> call, query |-> k]
           /\ ret' = r.ret
           /\ queries' = r.queries
           /\ visited' = r.visited
           /\ targets' = r.targets
           /\ UNCHANGED store

\* The caller takes the outcome of the call; the next call can be made.
Return_to_caller ==
    /\ ret.kind # "idle"
    /\ op' = [name |-> "none"]
    /\ ret' = [kind |-> "idle"]
    /\ queries' = 0
    /\ visited' = <<>>
    /\ targets' = <<>>
    /\ UNCHANGED store

\* The calls are synchronous: one is made when the last one has returned.
NextStore ==
    \/ ret.kind = "idle" /\ Call_get_components_status
    \/ ret.kind = "idle" /\ Call_get_pipeline_status
    \/ ret.kind = "idle" /\ Call_get_executions_by_context
    \/ ret.kind = "idle" /\ Call_get_execution_by_component_type
    \/ ret.kind = "idle" /\ Call_is_component_cached
    \/ ret.kind = "idle" /\ Call_find_original_context_and_artifacts_from_context
    \/ ret.kind = "idle" /\ Call_find_original_context_and_artifacts_from_exec
    \/ ret.kind = "idle" /\ Call_get_outcomes_in_context
    \/ ret.kind = "idle" /\ Call_get_outcomes
    \/ ret.kind = "idle" /\ Call_on_failing_store
    \/ Return_to_caller

SpecStore == InitOutcomes /\ [][NextStore]_vars

----------------------------------------------------------------------------
(* Claims on the Component Status Resolver, checked under SpecStatus. *)

\* The executions of the pipeline-typed context named by the last call.
PipelineMembers ==
    {e \in DOMAIN executions :
        \E c \in Range(associations[e]) :
            contexts[c].type = "pipeline" /\ contexts[c].name = op.pipeline_name}

\* C1: get_pipeline_status(P) returns Succeeded if and only if every state in
\* get_components_status(P) is complete or cached, and Running as soon as one
\* component is running or failed.
C1_StatusSucceededIffAllDone ==
    (op.name = "get_pipeline_status" /\ ret.kind = "return") =>
        LET status == get_components_status(op.pipeline_name).value
            states == {status[k] : k \in DOMAIN status}
        IN /\ ret.value = PipelineStatusTypes_Succeeded
                <=> states \subseteq {"complete", "cached"}
           /\ states \cap {"running", "failed"} # {}
                => ret.value = PipelineStatusTypes_Running

\* C9: get_components_status(P) has one entry per execution of P when the
\* component ids are distinct, and an entry holds the state of the last
\* execution, in backend order, that carries its component id.
C9_ComponentsStatusLastWins ==
    (op.name = "get_components_status" /\ ret.kind = "return") =>
        LET N == Cardinality(PipelineMembers)
        IN /\ DOMAIN ret.value = {executions[e].component_id : e \in PipelineMembers}
           /\ (\A e1, e2 \in PipelineMembers :
                  executions[e1].component_id = executions[e2].component_id => e1 = e2)
                => Cardinality(DOMAIN ret.value) = N
           /\ \A e \in PipelineMembers :
                  (\A l \in PipelineMembers :
                       executions[l].component_id = executions[e].component_id => l <= e)
                    => ret.value[executions[e].component_id] = executions[e].state

\* C9's case: two executions of the pipeline share a component id and differ
\* in state, and the call returned a single entry for them.
C9_Witness ==
    /\ op.name = "get_components_status"
    /\ ret.kind = "return"
    /\ \E e1, e2 \in PipelineMembers :
          /\ e1 < e2
          /\ executions[e1].component_id = executions[e2].component_id
          /\ executions[e1].state # executions[e2].state
          /\ ret.value[executions[e1].component_id] = executions[e2].state

----------------------------------------------------------------------------
(* Claims on the Cache-Chain Tracer, checked under SpecTrace. *)

IsCached(e) == executions[e].state = "cached"

\* The output events of execution e, and those on artifact a.
OutputEventsOf(e) ==
    {i \in DOMAIN events :
        events[i].execution_id = e /\ events[i].type = OutputEventType}
OutputEventsOn(a) ==
    {i \in DOMAIN events :
        events[i].artifact_id = a /\ events[i].type = OutputEventType}

Min(S) == CHOOSE x \in S : \A y \in S : x <= y
Max(S) == CHOOSE x \in S : \A y \in S : x >= y

\* The artifact a cached execution refers to: that of its latest output event.
ReferenceArtifact(e) == events[Max(OutputEventsOf(e))].artifact_id

\* The execution that produced artifact a: that of its earliest output event.
ProducerOf(a) == events[Min(OutputEventsOn(a))].execution_id

\* chain = <<c_K, ..., c_1, e0>>: K >= 1 cached executions, each referring to
\* an artifact produced by the next one, ending at the non-cached e0.
IsCacheChain(chain) ==
    /\ Len(chain) >= 2
    /\ \A i \in 1..(Len(chain) - 1) :
          /\ IsCached(chain[i])
          /\ OutputEventsOf(chain[i]) # {}
          /\ ProducerOf(ReferenceArtifact(chain[i])) = chain[i + 1]
    /\ ~IsCached(chain[Len(chain)])

\* The chains that start at execution e.
CacheChainsFrom(e) ==
    {chain \in SeqsUpTo(DOMAIN executions, Len(executions)) :
        Len(chain) >= 2 /\ chain[1] = e /\ IsCacheChain(chain)}

\* The artifact records of the output events of e, in backend order.
OutputArtifactsOf(e) ==
    LET S == OutputEventsOf(e)
    IN [k \in 1..Cardinality(S) |->
          LET i == CHOOSE i \in S : Cardinality({j \in S : j < i}) = k - 1
          IN [id |-> events[i].artifact_id,
              uri |-> artifacts[events[i].artifact_id].uri]]

IsTraceCall == op.name = "find_original_context_and_artifacts_from_exec"

\* C2: started at the last cached execution of a chain of K cached executions
\* that ends at the non-cached e0, the trace enters at most K+1 executions and
\* returns the name of e0's context with the artifacts of e0's output events.
C2_ChainResolvesToOrigin ==
    IsTraceCall =>
        \A chain \in CacheChainsFrom(op.execution) :
            LET e0 == chain[Len(chain)]
            IN /\ Len(visited) <= Len(chain)
               /\ ret.kind = "return"
               /\ ret.value[1] \in
                    {contexts[c].name : c \in Range(associations[e0])}
               /\ ret.value[2] = OutputArtifactsOf(e0)

RECURSIVE StaysCached(_, _)
\* Following the references from e for k steps meets cached executions only.
StaysCached(e, k) ==
    /\ IsCached(e)
    /\ OutputEventsOf(e) # {}
    /\ k > 0 => StaysCached(ProducerOf(ReferenceArtifact(e)), k - 1)

\* No non-cached origin is reachable from e: the references run into a cycle.
InCacheCycle(e) == StaysCached(e, Len(executions))

\* A failure of the trace that tells of the graph it walked: an exception
\* raised where an output event or an origin is missing.  A NameError tells
\* of a name the module does not bind, whatever the graph holds.
IsTraceError(r) == r.kind = "raise" /\ r.exc # "NameError"

\* C3: when the cached executions refer to each other in a cycle, the trace
\* fails with the error of a trace, and it fails before it enters an
\* execution a second time.
C3_CycleFailsWithoutRevisit ==
    (IsTraceCall /\ InCacheCycle(op.execution)) =>
        /\ IsTraceError(ret)
        /\ NoRepeat(visited)

\* C12: when the trace reaches a cached execution that has no output event
\* of its own, or whose traced artifact no output event refers to, it fails
\* with the error of a trace; it never returns a null result.
C12_MissingOutputEventFails ==
    IsTraceCall =>
        /\ ret.kind # "none"
        /\ \A k \in DOMAIN visited :
              (/\ IsCached(visited[k])
               /\ \/ OutputEventsOf(visited[k]) = {}
                  \/ OutputEventsOn(ReferenceArtifact(visited[k])) = {})
                => IsTraceError(ret)

\* C17: the trace of a non-cached execution, made a second time on the store
\* the first call left, returns the same (context name, artifacts) pair.
C17_TraceIdempotent ==
    (IsTraceCall /\ ~IsCached(op.execution)) =>
        /\ ret.kind = "return"
        /\ find_original_context_and_artifacts_from_exec(op.execution).ret = ret

C19_NonCachedReturnsOwn ==
    (IsTraceCall /\ ~IsCached(op.execution)) =>
        /\ ret = Return(<<contexts[associations[op.execution][1]].name,
                          OutputArtifactsOf(op.execution)>>)
        /\ visited = <<op.execution>>

----------------------------------------------------------------------------
(* Claims on the trace from a run's component, checked under SpecLookup. *)

\* Execution c is the execution of component instance T in context R: the
\* first of R's executions, in backend order, whose component id has T as its
\* second dot-separated segment.
IsExecutionOfInstance(c, R, T) ==
    /\ R \in Range(associations[c])
    /\ Split(executions[c].component_id)[2] = T
    /\ \A e \in 1..(c - 1) :
          R \in Range(associations[e]) => Split(executions[e].component_id)[2] # T

\* The artifact record of artifact a.
ArtifactRecord(a) == [id |-> a, uri |-> artifacts[a].uri]

\* C4: when the execution of instance T in run R is cached and its artifact
\* was produced by the non-cached e0 whose owning context is the run R0,
\* find_original_context_and_artifacts_from_context(R, T) returns R0's name
\* with e0's output artifacts, never R's name with the reference artifact.
C4_FromContextReturnsOriginRun ==
    (op.name = "find_original_context_and_artifacts_from_context") =>
        \A R \in DOMAIN contexts, c \in DOMAIN executions :
            (/\ contexts[R].type = "run"
             /\ contexts[R].name = op.context
             /\ IsExecutionOfInstance(c, R, op.component_type)
             /\ IsCached(c))
            => \A chain \in CacheChainsFrom(c) :
                  LET e0 == chain[Len(chain)]
                      R0 == associations[e0][1]
                  IN contexts[R0].type = "run" =>
                        /\ ret = Return(<<contexts[R0].name, OutputArtifactsOf(e0)>>)
                        /\ R0 # R =>
                              ret # Return(<<contexts[R].name,
                                             <<ArtifactRecord(ReferenceArtifact(c))>> >>)

IsFromContextCall == op.name = "find_original_context_and_artifacts_from_context"

\* No execution of run R has T as the second segment of its component_id.
NoExecutionOfInstance(R, T) ==
    \A e \in DOMAIN executions :
        R \in Range(associations[e]) => Split(executions[e].component_id)[2] # T

\* C13: find_original_context_and_artifacts_from_context(context,
\* component_type) fails with an error, and returns nothing, when no execution
\* of the run has component_type as the second segment of its component_id.
C13_NoMatchingExecutionFails ==
    IsFromContextCall =>
        \A R \in DOMAIN contexts :
            (/\ contexts[R].type = "run"
             /\ contexts[R].name = op.context
             /\ NoExecutionOfInstance(R, op.component_type))
              => /\ ret = Raise("AttributeError")
                 /\ visited = <<>>

\* A run with executions, none of the asked instance, was asked for and the
\* call failed.
C13_Witness ==
    /\ IsFromContextCall
    /\ op.context = "n2"
    /\ \E e \in DOMAIN executions : 3 \in Range(associations[e])
    /\ NoExecutionOfInstance(3, op.component_type)
    /\ ret.kind = "raise"

IsCachedCall == op.name = "is_component_cached"

\* C25: is_component_cached(context, component_id) returns True exactly when
\* the first execution the backend lists for the run whose component_id has
\* component_id as second segment is cached; it returns False when that
\* execution is in another state and when the run has no such execution.
C25_CachedIffFirstMatchCached ==
    IsCachedCall =>
        \A R \in DOMAIN contexts :
            contexts[R] = [type |-> "run", name |-> op.context] =>
                ret = Return(\E c \in DOMAIN executions :
                                /\ IsExecutionOfInstance(c, R, op.component_id)
                                /\ IsCached(c))

----------------------------------------------------------------------------
(* Claims on the Outcome Query Engine: get_outcomes (SpecOutcomes). *)

IsOutcomesCall == op.name = "get_outcomes"

\* Execution e belongs to context c.
BelongsTo(e, c) == \E i \in DOMAIN associations[e] : associations[e][i] = c

\* Some execution belonging to context c meets the condition.
Satisfies(c, condition) ==
    \E e \in DOMAIN executions :
        /\ BelongsTo(e, c)
        /\ executions[e].component_id = condition.component
        /\ PropertyValue(e, condition.property_name) = condition.value

\* The call's selectors are usable and every named run exists.
SelectionSucceeds ==
    /\ IsOutcomesCall
    /\ ~BothSelectors(op.contexts, op.context_names)
    /\ SelectTargets(op.contexts, op.context_names).ret.kind = "return"

\* The selected target set of the call.
SelectedTargetSet ==
    Range(SelectTargets(op.contexts, op.context_names).ret.value)

\* Every condition of the call names a component some execution has.
ConditionsRegistered ==
    \A i \in DOMAIN op.conditions :
        op.conditions[i].component \in list_registered_components

\* C5: when conditions are supplied to get_outcomes, a context id is among
\* the contexts the result is built for if and only if it is in the selected
\* target set and, for every condition, some execution belonging to that
\* context has the condition's component and the named property equal to the
\* condition's value.
C5_ConditionsIntersect ==
    (SelectionSucceeds /\ op.conditions # <<>> /\ ConditionsRegistered) =>
        LET qualifying ==
                {c \in SelectedTargetSet :
                    \A i \in DOMAIN op.conditions : Satisfies(c, op.conditions[i])}
        IN /\ Range(targets) = qualifying
           /\ ret.kind = "return" => DOMAIN ret.value = qualifying

\* Two of the call's conditions name the same component and property with
\* different values.
ConflictingConditions ==
    \E i, j \in DOMAIN op.conditions :
        /\ op.conditions[i].component = op.conditions[j].component
        /\ op.conditions[i].property_name = op.conditions[j].property_name
        /\ op.conditions[i].value # op.conditions[j].value

\* C6: get_outcomes called with two conditions on the same component and
\* property but with different values returns a result that holds no context,
\* whatever the store holds.
C6_ConflictingConditionsEmpty ==
    (SelectionSucceeds /\ ConflictingConditions /\ ConditionsRegistered) =>
        /\ ret.kind = "return"
        /\ DOMAIN ret.value = {}

\* C7: for every run context get_outcomes selects, the inner mapping returned
\* for it is what get_outcomes_in_context returns for that run (same
\* output_components) with every artifact replaced by its uri, in order.
C7_InnerMappingIsInContext ==
    (IsOutcomesCall /\ targets # <<>>) =>
        /\ ret.kind = "return"
        /\ \A c \in Range(targets) :
              contexts[c].type = "run" =>
                  /\ c \in DOMAIN ret.value
                  /\ ret.value[c] =
                        extract_uris(get_outcomes_in_context(
                            StrValue(contexts[c].name),
                            op.output_components).value)

\* C8: get_outcomes called with both contexts and context_names fails with
\* the usage error before any query reaches the backend, and yields no result.
C8_BothSelectorsRejected ==
    (IsOutcomesCall /\ op.contexts # <<>> /\ op.context_names # <<>>) =>
        /\ ret = Raise("Exception")
        /\ queries = 0
        /\ targets = <<>>

\* Both selectors were passed, on a store that holds the named run and
\* executions, and the call failed without a query.
C8_Witness ==
    /\ IsOutcomesCall
    /\ op.contexts = <<"n2", "n3">>
    /\ op.context_names = <<"n1">>
    /\ op.conditions # <<>>
    /\ executions # <<>>
    /\ ret.kind = "raise"
    /\ queries = 0

\* C11: the mapping get_outcomes returns has a key for every context id left
\* in the target set after the conditions, and a target context none of
\* whose executions is of a component in output_components is a key with an
\* empty inner mapping.
C11_EveryTargetIsKey ==
    (IsOutcomesCall /\ targets # <<>>) =>
        /\ ret.kind = "return"
        /\ DOMAIN ret.value = Range(targets)
        /\ \A c \in Range(targets) :
              (\A e \in DOMAIN executions :
                  BelongsTo(e, c) =>
                      executions[e].component_id \notin Range(op.output_components))
                => DOMAIN ret.value[c] = {}

\* C22: the target set of get_outcomes holds ids of run contexts only: the
\* ids of the contexts named in context_names, or the ids of the runs named
\* in contexts, or with neither every context of the store; and
\* get_outcomes_in_context resolves every id of the target set.
C22_TargetsAreResolvableRuns ==
    (SelectionSucceeds /\ op.conditions = <<>>) =>
        /\ Range(targets) =
              IF op.contexts # <<>>
              THEN {c \in DOMAIN contexts :
                      /\ contexts[c].type = "run"
                      /\ contexts[c].name \in Range(op.contexts)}
              ELSE IF op.context_names # <<>>
              THEN {c \in DOMAIN contexts :
                      contexts[c].name \in Range(op.context_names)}
              ELSE DOMAIN contexts
        /\ \A c \in Range(targets) :
              /\ contexts[c].type = "run"
              /\ get_outcomes_in_context(IntValue(c),
                                         op.output_components).kind = "return"

\* C24: get_outcomes with a condition on a component no execution of the
\* store has fails with the assertion error of filter_executions_by_component
\* instead of returning an empty result; the conditions before it are
\* applied, and no get_outcomes_in_context query is made.
C24_UnregisteredComponentAsserts ==
    (SelectionSucceeds /\ ~ConditionsRegistered) =>
        LET i == Min({j \in DOMAIN op.conditions :
                        op.conditions[j].component \notin list_registered_components})
            selected == SelectTargets(op.contexts, op.context_names)
            before == ApplyConditions(SubSeq(op.conditions, 1, i - 1), 1,
                                      selected.ret.value, selected.queries)
        IN /\ ret = Raise("AssertionError")
           /\ targets = <<>>
           /\ queries = before.queries + 1

\* The store holds executions, none of the component the condition names,
\* and get_outcomes on the run n1 failed with the assertion error.
C24_Witness ==
    /\ IsOutcomesCall
    /\ op.contexts = <<"n1">>
    /\ op.context_names = <<>>
    /\ Len(op.conditions) = 1
    /\ executions # <<>>
    /\ op.conditions[1].component \notin list_registered_components
    /\ ret = Raise("AssertionError")
    /\ queries = 2

----------------------------------------------------------------------------
(* Claims on the Outcome Query Engine: get_outcomes_in_context
   (SpecInContext). *)

IsInContextCall == op.name = "get_outcomes_in_context"

\* The executions that belong to context c.
ExecutionsIn(c) == {e \in DOMAIN executions : BelongsTo(e, c)}

\* C10: get_outcomes_in_context for a run, without output_components, returns
\* one entry for every component_id of the run's executions, mapped to the
\* artifacts of the execution's own output events (those of the last listed
\* execution of the component); a cached execution's entry holds the
\* artifacts attached to it and not those of the execution it reuses.
C10_InContextOwnArtifacts ==
    (IsInContextCall /\ op.output_components = <<>>) =>
        \A c \in DOMAIN contexts :
            (contexts[c].type = "run" /\ contexts[c].name = op.context) =>
                /\ ret.kind = "return"
                /\ DOMAIN ret.value =
                      {executions[e].component_id : e \in ExecutionsIn(c)}
                /\ \A e \in ExecutionsIn(c) :
                      (\A d \in ExecutionsIn(c) :
                          executions[d].component_id = executions[e].component_id
                              => d <= e)
                        => ret.value[executions[e].component_id]
                              = OutputArtifactsOf(e)

\* The run holds a loader and a cached trainer; the trainer's entry is the
\* one artifact attached to it, while the execution that produced this
\* artifact has two output artifacts.
C10_Witness ==
    /\ IsInContextCall
    /\ op.output_components = <<>>
    /\ ret.kind = "return"
    /\ DOMAIN ret.value = {"pkg.loader", "pkg.trainer"}
    /\ \E c \in DOMAIN executions :
          /\ BelongsTo(c, 2)
          /\ executions[c].component_id = "pkg.trainer"
          /\ IsCached(c)
          /\ Len(ret.value["pkg.trainer"]) = 1
          /\ ret.value["pkg.trainer"] = OutputArtifactsOf(c)
          /\ \E e0 \in DOMAIN executions :
                /\ e0 # c
                /\ ProducerOf(ReferenceArtifact(c)) = e0
                /\ Len(OutputArtifactsOf(e0)) = 2

\* Execution e has an output event on artifact a.
Outputs(e, a) == \E i \in OutputEventsOf(e) : events[i].artifact_id = a

\* C20: an artifact linked to an execution by events of another type than 4
\* only is never in that execution's entry of get_outcomes_in_context (the
\* entries get_outcomes is built from), never among the artifacts the trace
\* returns from that execution's events, and the trace enters an execution
\* only through an output event of it on the traced artifact, which is
\* itself the artifact of an output event.
C20_OnlyOutputEventsCount ==
    /\ (IsInContextCall /\ ret.kind = "return") =>
          \A component \in DOMAIN ret.value :
              \A k \in DOMAIN ret.value[component] :
                  \E c \in DOMAIN contexts, e \in DOMAIN executions :
                      /\ contexts[c] = [type |-> "run", name |-> op.context]
                      /\ BelongsTo(e, c)
                      /\ executions[e].component_id = component
                      /\ Outputs(e, ret.value[component][k].id)
    /\ (IsTraceCall /\ ret.kind = "return") =>
          \A k \in DOMAIN ret.value[2] :
              Outputs(visited[Len(visited)], ret.value[2][k].id)
    /\ IsTraceCall =>
          \A k \in 1..(Len(visited) - 1) :
              \E a \in DOMAIN artifacts :
                  Outputs(visited[k], a) /\ Outputs(visited[k + 1], a)

\* A run's execution with an input event on one artifact and an output event
\* on another was listed, and its entry holds the output artifact alone.
C20_Witness ==
    /\ IsInContextCall
    /\ ret.kind = "return"
    /\ \E e \in ExecutionsIn(2) :
          \E i, j \in DOMAIN events :
              /\ events[i].execution_id = e
              /\ events[i].type # OutputEventType
              /\ ~Outputs(e, events[i].artifact_id)
              /\ events[j].execution_id = e
              /\ events[j].type = OutputEventType
              /\ executions[e].component_id \in DOMAIN ret.value
              /\ ret.value[executions[e].component_id]
                    = <<ArtifactRecord(events[j].artifact_id)>>

----------------------------------------------------------------------------
(* Claims on every operation, checked under SpecStore. *)

\* No context of that type has that name.
NoContext(type_name, context_name) ==
    \A c \in DOMAIN contexts :
        contexts[c] # [type |-> type_name, name |-> context_name]

\* C14: when no context matches the (type, name) pair it looks up, the
\* operation fails with the error of the missing context and returns nothing:
\* get_components_status and get_pipeline_status for a pipeline name,
\* get_outcomes_in_context and get_execution_by_component_type for a run
\* name, get_outcomes for a run name of its contexts list.
C14_MissingContextFails ==
    /\ (/\ op.name \in {"get_components_status", "get_pipeline_status"}
        /\ NoContext("pipeline", op.pipeline_name))
          => ret = Raise("AttributeError")
    /\ (/\ op.name \in {"get_outcomes_in_context",
                        "get_execution_by_component_type"}
        /\ NoContext("run", op.context))
          => ret = Raise("AttributeError")
    /\ (/\ IsOutcomesCall
        /\ op.context_names = <<>>
        /\ \E i \in DOMAIN op.contexts : NoContext("run", op.contexts[i]))
          => (ret = Raise("AttributeError") /\ targets = <<>>)

\* get_pipeline_status was asked for a pipeline whose name only a run has,
\* on a store with executions, and failed.
C14_Witness ==
    /\ op.name = "get_pipeline_status"
    /\ op.pipeline_name = "n2"
    /\ NoContext("pipeline", "n2")
    /\ ~NoContext("run", "n2")
    /\ executions # <<>>
    /\ ret.kind = "raise"

\* C15: when a backend query fails during get_components_status,
\* get_pipeline_status, get_outcomes_in_context, get_outcomes or the trace,
\* the operation fails with the store's error, the failed query being the
\* last one it issued; a failure that would come after the operation's last
\* query changes nothing.
C15_StoreErrorPropagates ==
    op.name = "on_failing_store" =>
        IF op.query <= Answer(op.call).queries
        THEN /\ ret = Raise("StoreError")
             /\ queries = op.query
        ELSE /\ ret = Answer(op.call).ret
             /\ queries = Answer(op.call).queries

\* The second query of a get_outcomes_in_context that goes on to a third
\* and returns the artifacts of a run's execution failed.
C15_Witness ==
    /\ op.name = "on_failing_store"
    /\ op.call.name = "get_outcomes_in_context"
    /\ op.query = 2
    /\ Answer(op.call).queries > 2
    /\ Answer(op.call).ret.kind = "return"
    /\ \E component \in DOMAIN Answer(op.call).ret.value :
          Answer(op.call).ret.value[component] # <<>>
    /\ ret = Raise("StoreError")
    /\ queries = 2

\* C16: no status, outcome or trace operation, successful or failing, changes
\* the contexts, executions, artifacts or events of the store, or the state
\* of an execution.
C16_StoreUnchanged == [][store' = store]_vars

\* A call on a store with cached executions has returned, after which the
\* store holds what it held.
C16_Witness ==
    /\ op.name = "get_pipeline_status"
    /\ ret.kind = "return"
    /\ \E e \in DOMAIN executions : IsCached(e)
    /\ events # <<>>

\* The component ids of the executions of the context of that type and name.
ComponentsOf(type_name, context_name) ==
    {executions[e].component_id :
        e \in {e \in DOMAIN executions :
                 \E c \in DOMAIN contexts :
                     /\ contexts[c] = [type |-> type_name, name |-> context_name]
                     /\ BelongsTo(e, c)}}

\* The executions of the run of that name.
ExecutionsOfRun(context_name) ==
    {e \in DOMAIN executions :
        \E c \in DOMAIN contexts :
            /\ contexts[c] = [type |-> "run", name |-> context_name]
            /\ BelongsTo(e, c)}

\* C21: when a run and a pipeline share a name, the operations that look a
\* run up (get_outcomes_in_context, get_executions_by_context,
\* get_execution_by_component_type, is_component_cached) read the
\* executions of the run only, and those that
\* look a pipeline up (get_components_status, get_pipeline_status) read the
\* executions of the pipeline only.  is_component_cached shows what it read
\* by where it ends: with False when the run has no execution of the
\* instance, on the test of the state when it has one.
C21_TypeNamespacesApart ==
    /\ (op.name = "get_components_status" /\ ret.kind = "return") =>
          DOMAIN ret.value = ComponentsOf("pipeline", op.pipeline_name)
    /\ (op.name = "get_pipeline_status" /\ ret.kind = "return") =>
          (ret.value = PipelineStatusTypes_Succeeded
              <=> ComponentsOf("pipeline", op.pipeline_name) = {})
    /\ (op.name = "get_outcomes_in_context" /\ ret.kind = "return") =>
          DOMAIN ret.value =
              IF op.output_components = <<>>
              THEN ComponentsOf("run", op.context)
              ELSE ComponentsOf("run", op.context) \cap Range(op.output_components)
    /\ (op.name = "get_executions_by_context" /\ ret.kind = "return") =>
          Range(ret.value) = ExecutionsOfRun(op.context)
    /\ (op.name = "get_execution_by_component_type" /\ ret.kind = "return") =>
          ret.value \in ExecutionsOfRun(op.context)
    /\ (op.name = "get_execution_by_component_type" /\ ret.kind = "none") =>
          \A e \in ExecutionsOfRun(op.context) :
              Split(executions[e].component_id)[2] # op.component_id
    /\ (op.name = "is_component_cached" /\ ret.kind = "return") =>
          \A e \in ExecutionsOfRun(op.context) :
              Split(executions[e].component_id)[2] # op.component_id
    /\ (op.name = "is_component_cached" /\ ret = Raise("NameError")) =>
          \E e \in ExecutionsOfRun(op.context) :
              Split(executions[e].component_id)[2] = op.component_id

\* The pipeline n1 and the run n1 hold executions of different components,
\* and get_components_status("n1") listed those of the pipeline.
C21_Witness ==
    /\ op.name = "get_components_status"
    /\ op.pipeline_name = "n1"
    /\ ret.kind = "return"
    /\ DOMAIN ret.value # {}
    /\ ComponentsOf("run", "n1") # {}
    /\ ComponentsOf("run", "n1") \cap DOMAIN ret.value = {}

====
